---- MODULE Spec2Model ----
(***************************************************************************)
(* Model of check_api.js: the bounded-concurrency queue (queueRun), the    *)
(* retrying probe (safeGet) and search (testSearch), the per-endpoint      *)
(* task, and the history window with the statistics main derives from it.  *)
(*                                                                         *)
(* Array indices are 0-based as in the source.  Search statuses are named  *)
(* in ASCII: "Pass" is the check mark, "Fail" the cross, "NoResults",      *)
(* "Mismatch", "Slow", "Skipped" (disabled) and "NotTested" ("-").         *)
(***************************************************************************)
EXTENDS Integers, Sequences, FiniteSets, TLC

VARIABLES
    \* ---- queueRun and the part of main that awaits it ----
    apiEntries,   \* apiEntries[i] = [api, disabled], i in 0..n-1
    limit,        \* queueRun's limit argument
    index,        \* queueRun: admission cursor
    active,       \* queueRun: tasks started and not yet released
    results,      \* queueRun: the (sparse) results array, slot -> value
    tstate,       \* per task: state of its promise chain
    outcome,      \* per task: the value or error its promise settled with
    resolved,     \* queueRun's promise has been resolved
    pcMain,       \* main: "start", "await", "done"
    history,      \* main: the history window, oldest first
    stats,        \* main: api -> derived statistics of this run
    reliable,     \* main: the keys of the reliable subset written at the end
    \* ---- one endpoint's task: safeGet, testSearch ----
    pcT,          \* position of the task
    endpoint,     \* the endpoint [api, disabled] the task was built for
    maxRetry,     \* the retry budget (MAX_RETRY)
    attempt,      \* safeGet: attempt
    sAttempt,     \* testSearch: attempt
    streamStatus, \* safeGet: status of the streamed response
    probe,        \* the task's {success, latencyMs}, once safeGet returned
    searchStatus, \* the task's searchStatus, once known
    taskResult,   \* the value the task fulfilled with
    trace,        \* requests issued, attempts ended and waits, in order
    \* ---- successive invocations of the program ----
    runs          \* invocations completed so far

varsQ == <<apiEntries, limit, index, active, results, tstate, outcome,
           resolved, pcMain, history, stats, reliable>>

varsT == <<pcT, endpoint, maxRetry, attempt, sAttempt, streamStatus, probe,
           searchStatus, taskResult, trace>>

vars == <<varsQ, varsT, runs>>

\* ---- program constants ----
MAX_DAYS == 30
WARN_STREAK == 3
MAX_RETRY == 2
RETRY_DELAY_MS == 500
SLOW_MS == 2000

\* ---- bounds of the model ----
MaxTasks == 3
MaxLimit == 3
MaxBudget == 3
MaxRuns == 2

NoValue == [none |-> TRUE]
NoLatency == -1
NoRate == -1

(***************************************************************************)
(* queueRun (lines 144-167).  A task is an async function: calling it      *)
(* returns a promise that later fulfils with a value or rejects with an    *)
(* error.  The chain .then(store).catch(store error).finally(release) runs *)
(* as separate microtasks, so other tasks' callbacks may interleave        *)
(* between a task's store and its release.                                 *)
(***************************************************************************)
NTasks == IF DOMAIN apiEntries = {} THEN 0 ELSE Cardinality(DOMAIN apiEntries)

TaskIds == 0 .. (NTasks - 1)

\* The values task i of main can fulfil with (lines 186 and 195): the fixed
\* record of a disabled endpoint, or a probed record.
DisabledResult(e) ==
    [api |-> e.api, disabled |-> TRUE, success |-> FALSE,
     latencyMs |-> NoLatency, searchStatus |-> "Skipped"]

ProbedResult(e, ok) ==
    [api |-> e.api, disabled |-> FALSE, success |-> ok,
     latencyMs |-> IF ok THEN 300 ELSE 8000,
     searchStatus |-> IF ok THEN "Pass" ELSE "NotTested"]

TaskValuesOf(e) ==
    IF e.disabled
    THEN {DisabledResult(e)}
    ELSE {ProbedResult(e, ok) : ok \in BOOLEAN}

TaskValues(i) == TaskValuesOf(apiEntries[i])

\* The error a rejecting task i rejects with.
TaskError(i) == [message |-> "rejected", task |-> i]

\* Line 151: the admission guard of the while loop.
CanAdmitOffByOne(act, idx, n, lim) == act <= lim /\ idx < n

CanAdmit(act, idx, n, lim) == act < lim /\ idx < n

\* Line 162: the condition under which next() resolves the promise.
ResolveCondCursorOnly(idx, act, n) == idx >= n

ResolveCond(idx, act, n) == idx >= n /\ act = 0

\* Lines 154-155: the slot a task's result is written to.
SlotByCompletion(i, res) ==
    IF DOMAIN res = {} THEN 0 ELSE Cardinality(DOMAIN res)

Slot(i, res) == i

\* Lines 154-155: what is written: the value (then) or {error: err} (catch).
StoredValueRawError(kind, v) == v

StoredValue(kind, v) == IF kind = "fulfilled" THEN v ELSE [error |-> v]

\* Lines 156-157: finally runs whether the task fulfilled or rejected, and
\* gives the slot back.
ReleasedOnFulfilOnly(kind, act) == IF kind = "fulfilled" THEN act - 1 ELSE act

Released(kind, act) == act - 1

\* Lines 151-160: the while loop of next(): the state after admitting tasks
\* from cursor idx with act tasks active.
AdmitOne(idx, act, ts) ==
    IF CanAdmit(act, idx, NTasks, limit)
    THEN [index |-> idx + 1, active |-> act + 1,
          tstate |-> [ts EXCEPT ![idx] = "pending"]]
    ELSE [index |-> idx, active |-> act, tstate |-> ts]

RECURSIVE Admit(_, _, _)
Admit(idx, act, ts) ==
    IF CanAdmit(act, idx, NTasks, limit)
    THEN Admit(idx + 1, act + 1, [ts EXCEPT ![idx] = "pending"])
    ELSE [index |-> idx, active |-> act, tstate |-> ts]

\* Lines 150-163: next(), from the state (idx, act, ts).
NextCall(idx, act, ts) ==
    LET a == Admit(idx, act, ts) IN
    /\ index' = a.index
    /\ active' = a.active
    /\ tstate' = a.tstate
    /\ resolved' = (resolved \/ ResolveCond(a.index, a.active, NTasks))

\* Line 198 up to the await: main calls queueRun, which runs next() once.
QueueRun ==
    /\ pcMain = "start"
    /\ pcMain' = "await"
    /\ NextCall(index, active, tstate)
    /\ UNCHANGED <<apiEntries, limit, results, outcome, history, stats,
                   reliable>>
    /\ UNCHANGED <<varsT, runs>>

\* The environment: a started task's promise settles.
Fulfil(i) ==
    /\ tstate[i] = "pending"
    /\ \E v \in TaskValues(i) :
          outcome' = [outcome EXCEPT ![i] = v]
    /\ tstate' = [tstate EXCEPT ![i] = "fulfilled"]
    /\ UNCHANGED <<apiEntries, limit, index, active, results, resolved,
                   pcMain, history, stats, reliable>>
    /\ UNCHANGED <<varsT, runs>>

Reject(i) ==
    /\ tstate[i] = "pending"
    /\ outcome' = [outcome EXCEPT ![i] = TaskError(i)]
    /\ tstate' = [tstate EXCEPT ![i] = "rejected"]
    /\ UNCHANGED <<apiEntries, limit, index, active, results, resolved,
                   pcMain, history, stats, reliable>>
    /\ UNCHANGED <<varsT, runs>>

\* Lines 154-155: the then / catch callback stores the outcome.
Store(i) ==
    /\ tstate[i] \in {"fulfilled", "rejected"}
    /\ LET s == Slot(i, results)
           v == StoredValue(tstate[i], outcome[i])
       IN results' = [k \in DOMAIN results \cup {s} |->
                         IF k = s THEN v ELSE results[k]]
    /\ tstate' = [tstate EXCEPT ![i] =
                     IF tstate[i] = "fulfilled" THEN "storedOk" ELSE "storedErr"]
    /\ UNCHANGED <<apiEntries, limit, index, active, outcome, resolved,
                   pcMain, history, stats, reliable>>
    /\ UNCHANGED <<varsT, runs>>

\* Lines 156-159: the finally callback releases the slot and calls next().
Finally(i) ==
    /\ tstate[i] \in {"storedOk", "storedErr"}
    /\ NextCall(index,
                Released(IF tstate[i] = "storedOk" THEN "fulfilled"
                         ELSE "rejected", active),
                [tstate EXCEPT ![i] = "done"])
    /\ UNCHANGED <<apiEntries, limit, results, outcome, pcMain, history, stats, reliable>>
    /\ UNCHANGED <<varsT, runs>>

(***************************************************************************)
(* main after the await (lines 198-261): today's record is appended to the *)
(* history window, the window is truncated, and the statistics of every    *)
(* configured endpoint are recomputed from the window.  The history is a   *)
(* sequence, oldest first; a record's date is modelled as the ordinal of   *)
(* the run that wrote it.                                                  *)
(***************************************************************************)
\* The length of a results array (a function on 0..len-1).
ArrayLen(arr) == IF DOMAIN arr = {} THEN 0 ELSE Cardinality(DOMAIN arr)

\* x.api === api: a stored {error} has no api field.
HasApi(x, api) == "api" \in DOMAIN x /\ x.api = api

\* Lines 216, 225, 239: arr.find(x => x.api === api): the first match, or
\* NoValue (undefined).
FindRec(arr, api) ==
    LET hits == {k \in DOMAIN arr : HasApi(arr[k], api)} IN
    IF hits = {} THEN NoValue
    ELSE arr[CHOOSE k \in hits : \A j \in hits : k <= j]

NextDate(hist) == IF hist = <<>> THEN 1 ELSE hist[Len(hist)].date + 1

\* Lines 200-204.
TodayRecord(hist, todayResults) ==
    [date |-> NextDate(hist), results |-> todayResults]

\* Line 207: history.slice(-MAX_DAYS) when the window is too long.
TruncateKeepOldest(hist) ==
    IF Len(hist) > MAX_DAYS THEN SubSeq(hist, 1, MAX_DAYS) ELSE hist

TruncateOffByOne(hist) ==
    IF Len(hist) > MAX_DAYS + 1
    THEN SubSeq(hist, Len(hist) - MAX_DAYS, Len(hist)) ELSE hist

Truncate(hist) ==
    IF Len(hist) > MAX_DAYS
    THEN SubSeq(hist, Len(hist) - MAX_DAYS + 1, Len(hist)) ELSE hist

\* Lines 206-207.
PushHistory(hist, rec) == Truncate(Append(hist, rec))

\* Lines 215-219: the ok and fail counts over the window.
RECURSIVE CountOk(_, _)
CountOk(hist, api) ==
    IF hist = <<>> THEN 0
    ELSE LET rec == FindRec(Head(hist).results, api) IN
         CountOk(Tail(hist), api)
           + (IF rec # NoValue /\ rec.success THEN 1 ELSE 0)

RECURSIVE CountFailCountsMissing(_, _)
CountFailCountsMissing(hist, api) ==
    IF hist = <<>> THEN 0
    ELSE LET rec == FindRec(Head(hist).results, api) IN
         CountFailCountsMissing(Tail(hist), api)
           + (IF rec # NoValue /\ rec.success THEN 0 ELSE 1)

RECURSIVE CountFail(_, _)
CountFail(hist, api) ==
    IF hist = <<>> THEN 0
    ELSE LET rec == FindRec(Head(hist).results, api) IN
         CountFail(Tail(hist), api)
           + (IF rec # NoValue /\ ~rec.success THEN 1 ELSE 0)

\* Lines 223-229: the trailing failure streak, scanning from the newest
\* record (position i) down to the oldest.
RECURSIVE StreakStopAtMissing(_, _, _)
StreakStopAtMissing(hist, api, i) ==
    IF i < 1 THEN 0
    ELSE LET rec == FindRec(hist[i].results, api) IN
         IF rec = NoValue THEN 0
         ELSE IF rec.success THEN 0
         ELSE 1 + StreakStopAtMissing(hist, api, i - 1)

RECURSIVE StreakCountMissing(_, _, _)
StreakCountMissing(hist, api, i) ==
    IF i < 1 THEN 0
    ELSE LET rec == FindRec(hist[i].results, api) IN
         IF rec = NoValue THEN 1 + StreakCountMissing(hist, api, i - 1)
         ELSE IF rec.success THEN 0
         ELSE 1 + StreakCountMissing(hist, api, i - 1)

RECURSIVE StreakFrom(_, _, _)
StreakFrom(hist, api, i) ==
    IF i < 1 THEN 0
    ELSE LET rec == FindRec(hist[i].results, api) IN
         IF rec = NoValue THEN StreakFrom(hist, api, i - 1)
         ELSE IF rec.success THEN 0
         ELSE 1 + StreakFrom(hist, api, i - 1)

Streak(hist, api) == StreakFrom(hist, api, Len(hist))

\* Lines 258-260 with the initial value of line 212: "Disabled" is the
\* no-entry sign, "Alert" the siren, "Ok" the check mark, "Failed" the cross.
StatusAlertFirst(e, streak, latest) ==
    IF streak >= WARN_STREAK THEN "Alert"
    ELSE IF e.disabled THEN "Disabled"
    ELSE IF latest # NoValue /\ latest.success THEN "Ok"
    ELSE "Failed"

Status(e, streak, latest) ==
    IF e.disabled THEN "Disabled"
    ELSE IF streak >= WARN_STREAK THEN "Alert"
    ELSE IF latest # NoValue /\ latest.success THEN "Ok"
    ELSE "Failed"

\* Lines 220 and 246: the sum and the number of the numeric latencies the
\* window holds for api (a disabled entry carries none).
RECURSIVE SumLatency(_, _)
SumLatency(hist, api) ==
    IF hist = <<>> THEN 0
    ELSE LET rec == FindRec(Head(hist).results, api) IN
         SumLatency(Tail(hist), api)
           + (IF rec # NoValue /\ rec.latencyMs # NoLatency
              THEN rec.latencyMs ELSE 0)

RECURSIVE CountLatency(_, _)
CountLatency(hist, api) ==
    IF hist = <<>> THEN 0
    ELSE LET rec == FindRec(Head(hist).results, api) IN
         CountLatency(Tail(hist), api)
           + (IF rec # NoValue /\ rec.latencyMs # NoLatency THEN 1 ELSE 0)

\* Math.round(a / b) and toFixed of a / b, for a >= 0 and b > 0: the
\* nearest integer, a half rounded up.
RoundDiv(a, b) == (2 * a + b) \div (2 * b)

\* Line 231: successRate, in tenths of a percent as toFixed(1) prints it
\* ("66.7%" is 667), or NoRate for "-".
SuccessRate(ok, total) ==
    IF total > 0 THEN RoundDiv(ok * 1000, total) ELSE NoRate

\* Lines 245-248: latencyAvgMs, or NoLatency for "-".
LatencyAvg(hist, api) ==
    LET n == CountLatency(hist, api) IN
    IF n > 0 THEN RoundDiv(SumLatency(hist, api), n) ELSE NoLatency

\* Lines 250-256 with the initial value of line 212: the reliability tier.
\* parseFloat of "-" is NaN, and then no tier is assigned; an average of
\* "-" counts as Infinity.
ReliabilityLowWithoutRate(rate, avg) ==
    IF rate # NoRate /\ rate >= 900 /\ avg # NoLatency /\ avg < 2500
    THEN "High"
    ELSE IF rate # NoRate /\ rate >= 700 /\ avg # NoLatency /\ avg < 5000
    THEN "Medium"
    ELSE "Low"

ReliabilityInclusiveLatency(rate, avg) ==
    IF rate = NoRate THEN "-"
    ELSE IF rate >= 900 /\ avg # NoLatency /\ avg <= 2500 THEN "High"
    ELSE IF rate >= 700 /\ avg # NoLatency /\ avg <= 5000 THEN "Medium"
    ELSE "Low"

Reliability(rate, avg) ==
    IF rate = NoRate THEN "-"
    ELSE IF rate >= 900 /\ avg # NoLatency /\ avg < 2500 THEN "High"
    ELSE IF rate >= 700 /\ avg # NoLatency /\ avg < 5000 THEN "Medium"
    ELSE "Low"

\* Lines 212-261: the statistics of endpoint e over the window.  The field
\* streak is the scan's local variable of lines 223-229.
EndpointStats(hist, todayResults, e) ==
    LET latest == FindRec(todayResults, e.api)
        streak == Streak(hist, e.api)
        ok == CountOk(hist, e.api)
        fail == CountFail(hist, e.api)
        rate == SuccessRate(ok, ok + fail)
        avg == LatencyAvg(hist, e.api)
    IN [api |-> e.api,
        disabled |-> e.disabled,
        ok |-> ok,
        fail |-> fail,
        streak |-> streak,
        successRate |-> rate,
        latencyAvgMs |-> avg,
        lastLatencyMs |-> IF latest # NoValue THEN latest.latencyMs
                          ELSE NoLatency,
        reliable |-> Reliability(rate, avg),
        searchStatus |-> IF latest # NoValue THEN latest.searchStatus
                         ELSE "NotTested",
        status |-> Status(e, streak, latest)]

\* Lines 210-261: stats, keyed by api (a later entry with the same api
\* overwrites an earlier one).
ComputeStats(hist, todayResults, entries) ==
    LET apis == {entries[k].api : k \in DOMAIN entries}
        last(a) == CHOOSE k \in DOMAIN entries :
                      /\ entries[k].api = a
                      /\ \A j \in DOMAIN entries : entries[j].api = a => j <= k
    IN [a \in apis |-> EndpointStats(hist, todayResults, entries[last(a)])]

\* Lines 358-367: the keys of the configured endpoints that go into the
\* reliable subset (the key of an endpoint is its position in apiEntries).
ReliableSubsetHighTier(entries, st) ==
    {k \in DOMAIN entries : st[entries[k].api].reliable = "High"}

ReliableSubsetMediumRate(entries, st) ==
    {k \in DOMAIN entries :
        LET s == st[entries[k].api] IN
        s.successRate # NoRate /\ s.successRate >= 700 /\ s.status # "Alert"}

ReliableSubsetByStreak(entries, st) ==
    {k \in DOMAIN entries :
        LET s == st[entries[k].api] IN
        s.successRate # NoRate /\ s.successRate >= 900
                               /\ s.streak < WARN_STREAK}

ReliableSubset(entries, st) ==
    {k \in DOMAIN entries :
        LET s == st[entries[k].api] IN
        s.successRate # NoRate /\ s.successRate >= 900 /\ s.status # "Alert"}

\* Lines 198-261 and 358-367: the await returns and main aggregates.
MainAggregate ==
    /\ pcMain = "await"
    /\ resolved
    /\ LET h == PushHistory(history, TodayRecord(history, results)) IN
          /\ history' = h
          /\ stats' = ComputeStats(h, results, apiEntries)
          /\ reliable' = ReliableSubset(apiEntries,
                                        ComputeStats(h, results, apiEntries))
    /\ pcMain' = "done"
    /\ runs' = runs + 1
    /\ UNCHANGED <<apiEntries, limit, index, active, results, tstate,
                   outcome, resolved>>
    /\ UNCHANGED varsT

\* The task variables where no single task is followed.
TaskIdle ==
    /\ pcT = "idle"
    /\ endpoint = NoValue
    /\ maxRetry = MAX_RETRY
    /\ attempt = 0
    /\ sAttempt = 0
    /\ streamStatus = "none"
    /\ probe = NoValue
    /\ searchStatus = "none"
    /\ taskResult = NoValue
    /\ trace = <<>>

(***************************************************************************)
(* Specification of one run: main builds one task per configured endpoint, *)
(* runs them through queueRun and aggregates.                              *)
(***************************************************************************)
\* The configurations of n endpoints with distinct apis 0..n-1.
ConfigsOf(n) ==
    {[i \in 0 .. (n - 1) |-> [api |-> i, disabled |-> d[i]]] :
        d \in [0 .. (n - 1) -> BOOLEAN]}

Init ==
    /\ \E n \in 0 .. MaxTasks : apiEntries \in ConfigsOf(n)
    /\ limit \in 1 .. MaxLimit
    /\ index = 0
    /\ active = 0
    /\ results = <<>>
    /\ tstate = [i \in DOMAIN apiEntries |-> "unstarted"]
    /\ outcome = [i \in DOMAIN apiEntries |-> NoValue]
    /\ resolved = FALSE
    /\ pcMain = "start"
    /\ history = <<>>
    /\ stats = <<>>
    /\ reliable = {}
    /\ runs = 0
    /\ TaskIdle

Next ==
    \/ QueueRun
    \/ \E i \in TaskIds : Fulfil(i)
    \/ \E i \in TaskIds : Reject(i)
    \/ \E i \in TaskIds : Store(i)
    \/ \E i \in TaskIds : Finally(i)
    \/ MainAggregate

Spec == Init /\ [][Next]_vars

\* The event loop runs every queued callback; every started task settles.
FairSpec ==
    /\ Spec
    /\ WF_vars(QueueRun)
    /\ \A i \in 0 .. (MaxTasks - 1) :
          /\ WF_vars(i \in TaskIds /\ (Fulfil(i) \/ Reject(i)))
          /\ WF_vars(i \in TaskIds /\ Store(i))
          /\ WF_vars(i \in TaskIds /\ Finally(i))
    /\ WF_vars(MainAggregate)

(***************************************************************************)
(* Properties of queueRun and of the run.                                  *)
(***************************************************************************)
Started == {i \in TaskIds : tstate[i] # "unstarted"}

Unsettled == {i \in TaskIds : tstate[i] = "pending"}

\* Started and not yet released by finally.
InFlight == {i \in TaskIds : tstate[i] \notin {"unstarted", "done"}}

IsRejection(i) == outcome[i] = TaskError(i)

ApiSet == {apiEntries[i].api : i \in DOMAIN apiEntries}

\* C1: in every reachable state the active count, and with it the number of
\* tasks started and not yet settled, is at most limit.
C1_ActiveWithinLimit ==
    /\ active <= limit
    /\ Cardinality(Unsettled) <= active

\* C1 witness: the limit is reached while a task still waits for admission.
C1_Witness ==
    /\ active = limit
    /\ Cardinality(Unsettled) = limit
    /\ index < NTasks

\* C2: once queueRun's promise is resolved every task has been started and
\* has settled and released, the results array is as long as tasks, and
\* results[i] is the outcome of task i.
C2_ResolvedComplete ==
    resolved =>
        /\ index = NTasks
        /\ active = 0
        /\ \A i \in TaskIds : tstate[i] = "done"
        /\ ArrayLen(results) = NTasks
        /\ DOMAIN results = TaskIds
        /\ \A i \in TaskIds :
              IF IsRejection(i)
              THEN results[i] = [error |-> TaskError(i)]
              ELSE results[i] = outcome[i] /\ outcome[i] \in TaskValues(i)

\* C2 witness: resolved after three tasks ran two at a time, with a
\* rejection among them.
C2_Witness ==
    /\ resolved
    /\ NTasks = 3
    /\ limit = 2
    /\ IsRejection(1)
    /\ ~IsRejection(0)
    /\ ~IsRejection(2)

\* C3: a rejected task is stored as {error} at its own index, its slot is
\* given back (active counts exactly the tasks in flight), and every other
\* task's result is stored at its own index.
C3_RejectionIsolated ==
    /\ active = Cardinality(InFlight)
    /\ \A i \in TaskIds :
          /\ tstate[i] \in {"storedErr", "done"} /\ IsRejection(i)
                => i \in DOMAIN results /\ results[i] = [error |-> TaskError(i)]
          /\ tstate[i] \in {"storedOk", "done"} /\ ~IsRejection(i)
                => i \in DOMAIN results /\ results[i] = outcome[i]

\* C3 witness: task 0 rejected and was released, a later task was admitted
\* into its slot and its value recorded.
C3_Witness ==
    /\ NTasks = 3
    /\ limit = 1
    /\ tstate[0] = "done"
    /\ IsRejection(0)
    /\ tstate[1] = "done"
    /\ ~IsRejection(1)
    /\ tstate[2] = "pending"

\* C4: when every started task settles, queueRun resolves and main produces
\* a stats entry for every configured endpoint.
C4_RunCompletes == <>(pcMain = "done" /\ resolved /\ DOMAIN stats = ApiSet)

\* C4 witness: the run completed with statistics for both endpoints although
\* one task rejected.
C4_Witness ==
    /\ pcMain = "done"
    /\ NTasks >= 2
    /\ \E i \in TaskIds : IsRejection(i)
    /\ DOMAIN stats = ApiSet

(***************************************************************************)
(* One endpoint's task (lines 185-196) with safeGet (lines 90-125) and     *)
(* testSearch (lines 127-141).  Every await on a request or on a delay is  *)
(* a step.  axios rejects on a network error, a timeout or a status        *)
(* outside 2xx, and resolves on any 2xx status.                            *)
(***************************************************************************)
\* Elapsed times a request can be measured at, on both sides of SLOW_MS.
LatencySamples == {300, SLOW_MS - 1, SLOW_MS}

\* What a HEAD or a streamed GET can come back with.
HttpOutcomes == {"200", "2xx", "throw"}

\* What a search GET can come back with: a rejection (or a body whose list
\* makes the classification throw), or a response of one of four shapes.
SearchOutcomes == {"throw", "bad", "empty", "match", "nomatch"}

Ev(op, n, res, ms) == [op |-> op, n |-> n, res |-> res, ms |-> ms]

\* Line 98: the outcome of an attempt whose HEAD resolved.
HeadResult(status, lat) == [success |-> status = "200", latencyMs |-> lat]

\* Line 117: the outcome of an attempt whose streamed GET resolved.
StreamResult(status, lat) == [success |-> status = "200", latencyMs |-> lat]

\* Lines 119-123: what the catch of a failed probe attempt does.
ProbeCatchNoRetry(att, budget) == "fail"

ProbeCatchRaise(att, budget) == IF att < budget THEN "delay" ELSE "raise"

ProbeCatch(att, budget) == IF att < budget THEN "delay" ELSE "fail"

\* Line 121: the wait after failed probe attempt att.
ProbeDelayNextAttempt(att) == RETRY_DELAY_MS * (att + 1)

ProbeDelayMs(att) == RETRY_DELAY_MS * att

\* Lines 136-139: what the catch of a failed search attempt does.
SearchCatch(att, budget) == IF att < budget THEN "delay" ELSE "fail"

\* Line 137: the wait after failed search attempt att.
SearchDelayMs(att) == RETRY_DELAY_MS

\* Lines 132-135: the classification of a search response.
Classify(out) ==
    CASE out = "bad" -> "Fail"
      [] out = "empty" -> "NoResults"
      [] out = "match" -> "Pass"
      [] out = "nomatch" -> "Mismatch"

\* Lines 190-192 (ENABLE_SEARCH_TEST is true): search, or a fixed status.
SearchDecisionIgnoreLatency(p) ==
    IF p.success THEN "search" ELSE "NotTested"

SearchDecisionInclusive(p) ==
    IF p.success
    THEN (IF p.latencyMs <= SLOW_MS THEN "search" ELSE "Slow")
    ELSE "NotTested"

SearchDecision(p) ==
    IF p.success
    THEN (IF p.latencyMs < SLOW_MS THEN "search" ELSE "Slow")
    ELSE "NotTested"

\* Line 195: the value the task returns.
TaskReturn(e, p, status) ==
    [api |-> e.api, disabled |-> e.disabled, success |-> p.success,
     latencyMs |-> p.latencyMs, searchStatus |-> status]

\* Lines 185-189 and 91-96: the task starts; a disabled endpoint returns at
\* once, any other enters safeGet, whose first attempt issues the HEAD.
TaskStartProbesDisabled ==
    /\ pcT = "start"
    /\ attempt' = 1
    /\ trace' = Append(trace, Ev("HEAD", 1, "issued", 0))
    /\ pcT' = "head"
    /\ UNCHANGED <<taskResult, searchStatus>>
    /\ UNCHANGED <<endpoint, maxRetry, sAttempt, streamStatus, probe>>
    /\ UNCHANGED <<varsQ, runs>>

TaskStart ==
    /\ pcT = "start"
    /\ IF endpoint.disabled
       THEN /\ taskResult' = DisabledResult(endpoint)
            /\ searchStatus' = "Skipped"
            /\ pcT' = "done"
            /\ UNCHANGED <<attempt, trace>>
       ELSE /\ attempt' = 1
            /\ trace' = Append(trace, Ev("HEAD", 1, "issued", 0))
            /\ pcT' = "head"
            /\ UNCHANGED <<taskResult, searchStatus>>
    /\ UNCHANGED <<endpoint, maxRetry, sAttempt, streamStatus, probe>>
    /\ UNCHANGED <<varsQ, runs>>

\* Lines 96-103: the HEAD comes back.  A resolved HEAD returns from safeGet;
\* a rejected one issues the streamed GET in the same attempt.
HeadResponse ==
    /\ pcT = "head"
    /\ \E out \in HttpOutcomes, lat \in LatencySamples :
          IF out = "throw"
          THEN /\ trace' = Append(trace, Ev("STREAM", attempt, "issued", 0))
               /\ pcT' = "stream"
               /\ UNCHANGED probe
          ELSE /\ probe' = HeadResult(out, lat)
               /\ trace' = Append(trace,
                      Ev("ATTEMPT_END", attempt,
                         IF out = "200" THEN "ok" ELSE "not200", lat))
               /\ pcT' = "probed"
    /\ UNCHANGED <<endpoint, maxRetry, attempt, sAttempt, streamStatus,
                   searchStatus, taskResult>>
    /\ UNCHANGED <<varsQ, runs>>

\* Lines 103 and 119-123: the streamed GET comes back.  Resolved, the
\* attempt waits for the first stream event; rejected, the catch either
\* waits before the next attempt or returns the failure.
StreamResponse ==
    /\ pcT = "stream"
    /\ \E out \in HttpOutcomes, lat \in LatencySamples :
          IF out # "throw"
          THEN /\ streamStatus' = out
               /\ pcT' = "streamWait"
               /\ UNCHANGED <<probe, trace>>
          ELSE /\ UNCHANGED streamStatus
               /\ LET d == ProbeCatch(attempt, maxRetry)
                      ended == Append(trace,
                                  Ev("ATTEMPT_END", attempt, "throw", lat))
                  IN CASE d = "delay" ->
                            /\ trace' = Append(ended,
                                   Ev("DELAY_PROBE", attempt, "wait",
                                      ProbeDelayMs(attempt)))
                            /\ pcT' = "probeDelay"
                            /\ UNCHANGED probe
                       [] d = "fail" ->
                            /\ trace' = ended
                            /\ probe' = [success |-> FALSE, latencyMs |-> lat]
                            /\ pcT' = "probed"
                       [] OTHER ->
                            /\ trace' = ended
                            /\ pcT' = "raised"
                            /\ UNCHANGED probe
    /\ UNCHANGED <<endpoint, maxRetry, attempt, sAttempt, searchStatus,
                   taskResult>>
    /\ UNCHANGED <<varsQ, runs>>

\* Lines 105-117: the first of the stream's data, error and end events; the
\* latency is the time to first byte or the elapsed time.
StreamEvent ==
    /\ pcT = "streamWait"
    /\ \E lat \in LatencySamples :
          /\ probe' = StreamResult(streamStatus, lat)
          /\ trace' = Append(trace,
                 Ev("ATTEMPT_END", attempt,
                    IF streamStatus = "200" THEN "ok" ELSE "not200", lat))
    /\ pcT' = "probed"
    /\ UNCHANGED <<endpoint, maxRetry, attempt, sAttempt, streamStatus,
                   searchStatus, taskResult>>
    /\ UNCHANGED <<varsQ, runs>>

\* Lines 121 and 91-96: the delay ends, the next attempt issues its HEAD.
ProbeDelayDone ==
    /\ pcT = "probeDelay"
    /\ attempt' = attempt + 1
    /\ trace' = Append(trace, Ev("HEAD", attempt + 1, "issued", 0))
    /\ pcT' = "head"
    /\ UNCHANGED <<endpoint, maxRetry, sAttempt, streamStatus, probe,
                   searchStatus, taskResult>>
    /\ UNCHANGED <<varsQ, runs>>

\* Lines 189-195 and 128-131: safeGet returned; the task decides on the
\* search and either issues its first request or returns.
TaskContinue ==
    /\ pcT = "probed"
    /\ LET d == SearchDecision(probe) IN
          IF d = "search"
          THEN /\ sAttempt' = 1
               /\ trace' = Append(trace, Ev("SEARCH", 1, "issued", 0))
               /\ pcT' = "search"
               /\ UNCHANGED <<searchStatus, taskResult>>
          ELSE /\ searchStatus' = d
               /\ taskResult' = TaskReturn(endpoint, probe, d)
               /\ pcT' = "done"
               /\ UNCHANGED <<sAttempt, trace>>
    /\ UNCHANGED <<endpoint, maxRetry, attempt, streamStatus, probe>>
    /\ UNCHANGED <<varsQ, runs>>

\* Lines 131-139 and 193-195: the search GET comes back.
SearchResponse ==
    /\ pcT = "search"
    /\ \E out \in SearchOutcomes :
          IF out # "throw"
          THEN /\ trace' = Append(trace,
                      Ev("SEARCH_END", sAttempt, Classify(out), 0))
               /\ searchStatus' = Classify(out)
               /\ taskResult' = TaskReturn(endpoint, probe, Classify(out))
               /\ pcT' = "done"
          ELSE LET d == SearchCatch(sAttempt, maxRetry)
                   ended == Append(trace,
                               Ev("SEARCH_END", sAttempt, "throw", 0))
               IN CASE d = "delay" ->
                         /\ trace' = Append(ended,
                                Ev("DELAY_SEARCH", sAttempt, "wait",
                                   SearchDelayMs(sAttempt)))
                         /\ pcT' = "searchDelay"
                         /\ UNCHANGED <<searchStatus, taskResult>>
                    [] d = "fail" ->
                         /\ trace' = ended
                         /\ searchStatus' = "Fail"
                         /\ taskResult' = TaskReturn(endpoint, probe, "Fail")
                         /\ pcT' = "done"
                    [] OTHER ->
                         /\ trace' = ended
                         /\ pcT' = "raised"
                         /\ UNCHANGED <<searchStatus, taskResult>>
    /\ UNCHANGED <<endpoint, maxRetry, attempt, sAttempt, streamStatus, probe>>
    /\ UNCHANGED <<varsQ, runs>>

\* Lines 137 and 128-131: the delay ends, the next attempt issues its GET.
SearchDelayDone ==
    /\ pcT = "searchDelay"
    /\ sAttempt' = sAttempt + 1
    /\ trace' = Append(trace, Ev("SEARCH", sAttempt + 1, "issued", 0))
    /\ pcT' = "search"
    /\ UNCHANGED <<endpoint, maxRetry, attempt, streamStatus, probe,
                   searchStatus, taskResult>>
    /\ UNCHANGED <<varsQ, runs>>

\* The queue variables where only a task is followed.
QueueIdle ==
    /\ apiEntries = <<>>
    /\ limit = 1
    /\ index = 0
    /\ active = 0
    /\ results = <<>>
    /\ tstate = <<>>
    /\ outcome = <<>>
    /\ resolved = FALSE
    /\ pcMain = "idle"
    /\ history = <<>>
    /\ stats = <<>>
    /\ reliable = {}
    /\ runs = 0

InitTask(budgets) ==
    /\ QueueIdle
    /\ pcT = "start"
    /\ endpoint \in {[api |-> 0, disabled |-> d] : d \in BOOLEAN}
    /\ maxRetry \in budgets
    /\ attempt = 0
    /\ sAttempt = 0
    /\ streamStatus = "none"
    /\ probe = NoValue
    /\ searchStatus = "none"
    /\ taskResult = NoValue
    /\ trace = <<>>

\* Lines 198-261 and 358-367: the run whose configuration holds this one
\* endpoint: queueRun resolves with the task's value and main aggregates.
TaskReport ==
    /\ pcT = "done"
    /\ pcMain = "idle"
    /\ LET cfg == [k \in 0 .. 0 |-> endpoint]
           res == [k \in 0 .. 0 |-> taskResult]
           h == PushHistory(history, TodayRecord(history, res))
       IN /\ apiEntries' = cfg
          /\ results' = res
          /\ history' = h
          /\ stats' = ComputeStats(h, res, cfg)
          /\ reliable' = ReliableSubset(cfg, ComputeStats(h, res, cfg))
    /\ pcMain' = "done"
    /\ runs' = runs + 1
    /\ UNCHANGED <<limit, index, active, tstate, outcome, resolved>>
    /\ UNCHANGED varsT

NextTask ==
    \/ TaskReport
    \/ TaskStart
    \/ HeadResponse
    \/ StreamResponse
    \/ StreamEvent
    \/ ProbeDelayDone
    \/ TaskContinue
    \/ SearchResponse
    \/ SearchDelayDone

\* The task as the program runs it: the budget is MAX_RETRY.
InitProbe == InitTask({MAX_RETRY})

SpecProbe == InitProbe /\ [][NextTask]_vars

\* The task under any retry budget from MAX_RETRY to MaxBudget.
InitBudget == InitTask(MAX_RETRY .. MaxBudget)

SpecBudget == InitBudget /\ [][NextTask]_vars

(***************************************************************************)
(* Properties of the retry loops and of the task.                          *)
(***************************************************************************)
EventsOf(ops) == {k \in DOMAIN trace : trace[k].op \in ops}

CountOp(op) == Cardinality(EventsOf({op}))

\* The position of the event (op, n), or 0 when there is none.
PosOf(op, n) ==
    LET hits == {k \in EventsOf({op}) : trace[k].n = n} IN
    IF hits = {} THEN 0 ELSE CHOOSE k \in hits : TRUE

ProbeOps == {"HEAD", "STREAM", "ATTEMPT_END", "DELAY_PROBE"}

SearchOps == {"SEARCH", "SEARCH_END", "DELAY_SEARCH"}

\* safeGet has returned, respectively testSearch has returned.
ProbeReturned == probe # NoValue

SearchReturned == CountOp("SEARCH") >= 1 /\ searchStatus # "none"

AllProbeAttemptsThrew ==
    /\ CountOp("ATTEMPT_END") >= 1
    /\ \A k \in EventsOf({"ATTEMPT_END"}) : trace[k].res = "throw"

AllSearchAttemptsThrew ==
    /\ CountOp("SEARCH_END") >= 1
    /\ \A k \in EventsOf({"SEARCH_END"}) : trace[k].res = "throw"

\* C5: a probe, respectively a search, whose every attempt failed returns
\* the failure result after exactly MAX_RETRY attempts; neither raises.
C5_ExhaustionReturnsFailure ==
    /\ pcT # "raised"
    /\ ProbeReturned /\ AllProbeAttemptsThrew
          => /\ probe.success = FALSE
             /\ CountOp("HEAD") = MAX_RETRY
             /\ CountOp("ATTEMPT_END") = MAX_RETRY
    /\ SearchReturned /\ AllSearchAttemptsThrew
          => /\ searchStatus = "Fail"
             /\ CountOp("SEARCH") = MAX_RETRY

\* C5 witness: the search failed on every attempt and the task returned.
C5_Witness ==
    /\ pcT = "done"
    /\ SearchReturned
    /\ AllSearchAttemptsThrew
    /\ taskResult.searchStatus = "Fail"

\* C5, the probe's case: every probe attempt failed and the task returned.
C5_ProbeCase ==
    /\ pcT = "done"
    /\ ProbeReturned
    /\ AllProbeAttemptsThrew
    /\ taskResult.success = FALSE

FirstThrew(endOp) ==
    PosOf(endOp, 1) # 0 /\ trace[PosOf(endOp, 1)].res = "throw"

SecondCameBack(endOp) ==
    PosOf(endOp, 2) # 0 /\ trace[PosOf(endOp, 2)].res # "throw"

\* The waits of one loop, in order.
Waits(op) ==
    LET IsWait(e) == e.op = op
        ws == SelectSeq(trace, IsWait)
    IN [k \in DOMAIN ws |-> ws[k].ms]

LastPos(ops) ==
    CHOOSE k \in EventsOf(ops) : \A j \in EventsOf(ops) : j <= k

\* C6: with a budget of 2, a probe or a search that fails once and then
\* comes back returns the second attempt's result, having waited once, for
\* RETRY_DELAY_MS * 1, between the attempts; nothing follows the success.
C6_RetryOnceThenSuccess ==
    /\ FirstThrew("ATTEMPT_END") /\ SecondCameBack("ATTEMPT_END")
          => /\ ProbeReturned
             /\ probe.success = (trace[PosOf("ATTEMPT_END", 2)].res = "ok")
             /\ probe.latencyMs = trace[PosOf("ATTEMPT_END", 2)].ms
             /\ Waits("DELAY_PROBE") = <<RETRY_DELAY_MS * 1>>
             /\ PosOf("ATTEMPT_END", 1) < PosOf("DELAY_PROBE", 1)
             /\ PosOf("DELAY_PROBE", 1) < PosOf("HEAD", 2)
             /\ CountOp("HEAD") = 2
             /\ LastPos(ProbeOps) = PosOf("ATTEMPT_END", 2)
    /\ FirstThrew("SEARCH_END") /\ SecondCameBack("SEARCH_END")
          => /\ searchStatus = trace[PosOf("SEARCH_END", 2)].res
             /\ Waits("DELAY_SEARCH") = <<RETRY_DELAY_MS * 1>>
             /\ PosOf("SEARCH_END", 1) < PosOf("DELAY_SEARCH", 1)
             /\ PosOf("DELAY_SEARCH", 1) < PosOf("SEARCH", 2)
             /\ CountOp("SEARCH") = 2
             /\ LastPos(SearchOps) = PosOf("SEARCH_END", 2)

\* C6 witness: the probe and the search each failed once, then succeeded,
\* under the program's budget of 2, and the task returned.
C6_Witness ==
    /\ maxRetry = 2
    /\ pcT = "done"
    /\ FirstThrew("ATTEMPT_END")
    /\ SecondCameBack("ATTEMPT_END")
    /\ taskResult.success
    /\ FirstThrew("SEARCH_END")
    /\ SecondCameBack("SEARCH_END")
    /\ taskResult.searchStatus = "Pass"

\* C7: in both loops the wait after failed attempt k is RETRY_DELAY_MS * k
\* and there is no wait after the last attempt, for every budget >= 2.
C7_LinearBackoffBothLoops ==
    \A k \in EventsOf({"DELAY_PROBE", "DELAY_SEARCH"}) :
        /\ trace[k].ms = RETRY_DELAY_MS * trace[k].n
        /\ trace[k].n < maxRetry

\* C8: a search request is issued only once the probe's outcome is known,
\* and only for a successful probe below SLOW_MS; a failed probe gives
\* NotTested and a slow one Slow, both without any search request.
C8_SearchGatedByProbe ==
    /\ CountOp("SEARCH") >= 1
          => /\ ProbeReturned
             /\ probe.success
             /\ probe.latencyMs < SLOW_MS
             /\ \A k \in EventsOf(ProbeOps), j \in EventsOf(SearchOps) : k < j
    /\ pcT = "done" /\ ~endpoint.disabled /\ ~probe.success
          => searchStatus = "NotTested" /\ CountOp("SEARCH") = 0
    /\ pcT = "done" /\ ~endpoint.disabled /\ probe.success
                    /\ probe.latencyMs >= SLOW_MS
          => searchStatus = "Slow" /\ CountOp("SEARCH") = 0
    /\ pcT = "done" /\ ~endpoint.disabled
          => taskResult.searchStatus = searchStatus

\* C8 witness: a probe that succeeded at exactly SLOW_MS returned Slow
\* without a search request.
C8_Witness ==
    /\ pcT = "done"
    /\ ~endpoint.disabled
    /\ probe.success
    /\ probe.latencyMs = SLOW_MS
    /\ taskResult.searchStatus = "Slow"
    /\ CountOp("SEARCH") = 0

\* C8, the other cases: a search was issued after a fast successful probe;
\* a failed probe returned NotTested.
C8_SearchIssuedCase ==
    /\ pcT = "search"
    /\ probe.success
    /\ probe.latencyMs = SLOW_MS - 1

C8_NotTestedCase ==
    /\ pcT = "done"
    /\ ~endpoint.disabled
    /\ ~probe.success
    /\ taskResult.searchStatus = "NotTested"

(***************************************************************************)
(* Successive invocations.  Each invocation loads a configuration, runs    *)
(* every task to its value (the tasks of main never reject), appends       *)
(* today's record to the window read from the previous report and          *)
(* recomputes the statistics (lines 174-261).  The window is the only      *)
(* state carried from one invocation to the next.                          *)
(***************************************************************************)
\* The apis that configurations are drawn from.
Universe == {0, 1}

\* The element of S with exactly k smaller elements.
Nth(S, k) == CHOOSE x \in S : Cardinality({y \in S : y < x}) = k

\* Lines 175-180: the configurations over the apis S, in ascending order.
ConfigsOver(S) ==
    {[k \in 0 .. (Cardinality(S) - 1) |->
         [api |-> Nth(S, k), disabled |-> d[Nth(S, k)]]] :
        d \in [S -> BOOLEAN]}

ConfigsH == UNION {ConfigsOver(S) : S \in SUBSET Universe}

\* Lines 185-198: the results arrays queueRun can resolve with for cfg.
ResultsFor(cfg) ==
    {[k \in DOMAIN cfg |->
         IF cfg[k].disabled THEN DisabledResult(cfg[k])
         ELSE ProbedResult(cfg[k], okf[k])] :
        okf \in [DOMAIN cfg -> BOOLEAN]}

\* The record an earlier run wrote on day d: api 0 succeeded every third
\* day; api 1 was configured on even days only and succeeded on every
\* fourth day.
EarlierResults(d) ==
    LET e0 == [api |-> 0, disabled |-> FALSE]
        e1 == [api |-> 1, disabled |-> FALSE]
        r0 == ProbedResult(e0, d % 3 = 0)
        r1 == ProbedResult(e1, d % 4 = 0)
    IN IF d % 2 = 0
       THEN [k \in 0 .. 1 |-> IF k = 0 THEN r0 ELSE r1]
       ELSE [k \in 0 .. 0 |-> r0]

EarlierHistory(n) ==
    [d \in 1 .. n |-> [date |-> d, results |-> EarlierResults(d)]]

\* The windows a report can hold when the program starts: none, windows
\* written by earlier runs, and one longer than MAX_DAYS.
InitLengths == {0, MAX_DAYS - 1, MAX_DAYS, MAX_DAYS + 2}

InitHistory ==
    /\ history \in {EarlierHistory(n) : n \in InitLengths}
    /\ apiEntries = <<>>
    /\ limit = 1
    /\ index = 0
    /\ active = 0
    /\ results = <<>>
    /\ tstate = <<>>
    /\ outcome = <<>>
    /\ resolved = FALSE
    /\ pcMain = "idle"
    /\ stats = <<>>
    /\ reliable = {}
    /\ runs = 0
    /\ TaskIdle

\* Lines 170-261: one invocation, from loading the configuration to the
\* statistics.
Run ==
    /\ runs < MaxRuns
    /\ \E cfg \in ConfigsH :
          \E res \in ResultsFor(cfg) :
             LET h == PushHistory(history, TodayRecord(history, res)) IN
                /\ apiEntries' = cfg
                /\ results' = res
                /\ history' = h
                /\ stats' = ComputeStats(h, res, cfg)
                /\ reliable' = ReliableSubset(cfg, ComputeStats(h, res, cfg))
    /\ runs' = runs + 1
    /\ UNCHANGED <<limit, index, active, tstate, outcome, resolved, pcMain>>
    /\ UNCHANGED varsT

NextHistory == Run

SpecHistory == InitHistory /\ [][NextHistory]_vars

(***************************************************************************)
(* Properties of the window and of the statistics.                         *)
(***************************************************************************)
\* The entry for api in the window's k-th record, or NoValue.
EntryAt(k, api) == FindRec(history[k].results, api)

OldestFirst ==
    \A j, k \in DOMAIN history : j < k => history[j].date < history[k].date

\* C9: after any run the window holds at most MAX_DAYS records, oldest
\* first, today's record last; appending to a window of MAX_DAYS or more
\* records leaves exactly MAX_DAYS, the newest ones, so that a window of
\* exactly MAX_DAYS loses its oldest record only.
C9_WindowCapped ==
    /\ [](runs >= 1 =>
            /\ Len(history) <= MAX_DAYS
            /\ Len(history) >= 1
            /\ OldestFirst
            /\ history[Len(history)].results = results)
    /\ [][Len(history) >= MAX_DAYS =>
            /\ Len(history') = MAX_DAYS
            /\ \A k \in 1 .. (MAX_DAYS - 1) :
                  history'[k] = history[Len(history) - MAX_DAYS + 1 + k]
            /\ history'[MAX_DAYS].results = results'
            /\ (Len(history) = MAX_DAYS => history'[1] = history[2])]_vars

\* C9 witness: a full window was appended to and lost its oldest record.
C9_Witness ==
    /\ runs = 1
    /\ Len(history) = MAX_DAYS
    /\ history[1].date = 2
    /\ history[MAX_DAYS].date = MAX_DAYS + 1

\* The positions of the window's records in which api succeeded, failed.
SuccessPos(api) ==
    {k \in DOMAIN history :
        LET e == EntryAt(k, api) IN e # NoValue /\ e.success}

FailurePos(api) ==
    {k \in DOMAIN history :
        LET e == EntryAt(k, api) IN e # NoValue /\ ~e.success}

\* The failing entries for api newer than its newest successful entry.
FailuresSinceSuccess(api) ==
    LET wins == SuccessPos(api) IN
    {k \in FailurePos(api) : \A j \in wins : j < k}

\* C10: the streak of every configured endpoint is the number of its
\* failing entries newer than its newest successful entry; records without
\* an entry for it are passed over and not counted.
C10_StreakSkipsMissing ==
    \A api \in DOMAIN stats :
        stats[api].streak = Cardinality(FailuresSinceSuccess(api))

\* C10 witness: api 1 failed today and two days ago, was not configured
\* on the days in between and before, and succeeded before that: its
\* streak is 2.
C10_Witness ==
    /\ runs >= 1
    /\ Len(history) >= 5
    /\ 1 \in DOMAIN stats
    /\ LET n == Len(history) IN
          /\ EntryAt(n, 1) # NoValue /\ ~EntryAt(n, 1).success
          /\ EntryAt(n - 1, 1) = NoValue
          /\ EntryAt(n - 2, 1) # NoValue /\ ~EntryAt(n - 2, 1).success
          /\ EntryAt(n - 3, 1) = NoValue
          /\ EntryAt(n - 4, 1) # NoValue /\ EntryAt(n - 4, 1).success
    /\ stats[1].streak = 2

\* C10, the example: entries fail, fail, success, fail give streak 1.
C10_ExampleCase ==
    /\ runs >= 1
    /\ Len(history) >= 4
    /\ 0 \in DOMAIN stats
    /\ LET n == Len(history) IN
          /\ ~EntryAt(n, 0).success
          /\ EntryAt(n - 1, 0).success
          /\ ~EntryAt(n - 2, 0).success
          /\ ~EntryAt(n - 3, 0).success
    /\ stats[0].streak = 1

\* The newest records that all hold a failing entry for api: what a scan
\* that stopped at a success or at a record without an entry would count.
TrailingFailRun(api) ==
    LET broken == DOMAIN history \ FailurePos(api) IN
    {k \in DOMAIN history : \A j \in broken : j < k}

\* The newest records that hold no successful entry for api.
TrailingNoSuccess(api) ==
    LET wins == SuccessPos(api) IN
    {k \in DOMAIN history : \A j \in wins : j < k}

\* C11 as stated: the scan stops at the first success or at the first
\* record without an entry, so the streak is the length of the unbroken run
\* of failing entries at the end of the window.
C11_StopsAtMissing ==
    \A api \in DOMAIN stats :
        stats[api].streak = Cardinality(TrailingFailRun(api))

\* C11 amended: the scan stops at the first success only; a record without
\* an entry neither stops it nor is counted, so failing entries older than
\* such a record are counted up to the newest success.
C11_StopsAtSuccessOnly ==
    \A api \in DOMAIN stats :
        /\ stats[api].streak >= Cardinality(TrailingFailRun(api))
        /\ stats[api].streak =
              Cardinality(TrailingNoSuccess(api) \cap FailurePos(api))
        /\ stats[api].streak <= Cardinality(TrailingNoSuccess(api))

\* C11 witness: api 1 failed today, has no entry in yesterday's record and
\* failed the day before: the scan went past the gap and counted both.
C11_Witness ==
    /\ runs >= 1
    /\ Len(history) >= 3
    /\ 1 \in DOMAIN stats
    /\ Len(history) \in FailurePos(1)
    /\ EntryAt(Len(history) - 1, 1) = NoValue
    /\ (Len(history) - 2) \in FailurePos(1)
    /\ Cardinality(TrailingFailRun(1)) = 1
    /\ stats[1].streak >= 2


(***************************************************************************)
(* The aggregation with measured latencies: one endpoint (api 0) whose     *)
(* window was written by earlier runs, and runs whose probe of it takes a  *)
(* time around the thresholds of lines 253-254.                            *)
(***************************************************************************)
\* Line 195: the record of a probed endpoint whose probe took ms.
MeasuredResult(e, ok, ms) ==
    [api |-> e.api, disabled |-> FALSE, success |-> ok, latencyMs |-> ms,
     searchStatus |-> IF ~ok THEN "NotTested"
                      ELSE IF ms < SLOW_MS THEN "Pass" ELSE "Slow"]

\* Latencies on both sides of the two latency thresholds.
TierLatencies == {2499, 2500, 4999, 5000}

\* Lines 185-198: the results arrays for cfg with measured latencies.
MeasuredFor(cfg) ==
    {[k \in DOMAIN cfg |->
         IF cfg[k].disabled THEN DisabledResult(cfg[k])
         ELSE MeasuredResult(cfg[k], m[k].ok, m[k].ms)] :
        m \in [DOMAIN cfg -> [ok : BOOLEAN, ms : TierLatencies]]}

\* A window of n earlier records of api 0: the last f probes failed, the
\* others succeeded, each took ms (one more on odd days when jit = 1).
TierEarlier(n, f, ms, jit) ==
    [d \in 1 .. n |->
        [date |-> d,
         results |-> [k \in 0 .. 0 |->
             MeasuredResult([api |-> 0, disabled |-> FALSE],
                            d <= n - f, ms + jit * (d % 2))]]]

TierLengths == {9, MAX_DAYS - 1}

TierFails == 0 .. WARN_STREAK

InitTier ==
    /\ history \in {TierEarlier(n, f, ms, jit) :
                       n \in TierLengths, f \in TierFails,
                       ms \in TierLatencies, jit \in 0 .. 1}
    /\ apiEntries = <<>>
    /\ limit = 1
    /\ index = 0
    /\ active = 0
    /\ results = <<>>
    /\ tstate = <<>>
    /\ outcome = <<>>
    /\ resolved = FALSE
    /\ pcMain = "idle"
    /\ stats = <<>>
    /\ reliable = {}
    /\ runs = 0
    /\ TaskIdle

\* Lines 170-261 and 358-367: one invocation on the configuration that
\* holds api 0, enabled or disabled.
RunMeasured ==
    /\ runs < MaxRuns
    /\ \E cfg \in ConfigsOver({0}) :
          \E res \in MeasuredFor(cfg) :
             LET h == PushHistory(history, TodayRecord(history, res)) IN
                /\ apiEntries' = cfg
                /\ results' = res
                /\ history' = h
                /\ stats' = ComputeStats(h, res, cfg)
                /\ reliable' = ReliableSubset(cfg, ComputeStats(h, res, cfg))
    /\ runs' = runs + 1
    /\ UNCHANGED <<limit, index, active, tstate, outcome, resolved, pcMain>>
    /\ UNCHANGED varsT

NextTier == RunMeasured

SpecTier == InitTier /\ [][NextTier]_vars

(***************************************************************************)
(* Properties of the reliability tier and of the reliable subset.          *)
(***************************************************************************)
\* The entries of the window for api, their successes and their latencies,
\* measured on the window itself.
SampleCount(api) == Cardinality(SuccessPos(api)) + Cardinality(FailurePos(api))

RateAtLeast(api, pct) ==
    /\ SampleCount(api) > 0
    /\ 100 * Cardinality(SuccessPos(api)) >= pct * SampleCount(api)

\* The average latency, rounded to the nearest millisecond, is below ms.
AvgBelow(api, ms) ==
    LET n == CountLatency(history, api) IN
    /\ n > 0
    /\ 2 * SumLatency(history, api) + n < 2 * ms * n

\* C12: an endpoint with a computable success rate is in the tier High iff
\* its rate is at least 90% and its average latency is below 2500 ms,
\* otherwise Medium iff its rate is at least 70% and its average latency is
\* below 5000 ms, otherwise Low; with no numeric latency sample the
\* average counts as unbounded.
C12_TierByRateAndLatency ==
    \A api \in DOMAIN stats :
        SampleCount(api) > 0 =>
            LET high == RateAtLeast(api, 90) /\ AvgBelow(api, 2500)
                medium == RateAtLeast(api, 70) /\ AvgBelow(api, 5000)
            IN /\ (stats[api].reliable = "High") = high
               /\ (stats[api].reliable = "Medium") = (~high /\ medium)
               /\ (stats[api].reliable = "Low") = (~high /\ ~medium)

\* A run left api 0 with a rate of exactly 90% and an average that rounds
\* up to 2500 ms: the tier is Medium.
C12_Witness ==
    /\ runs >= 1
    /\ 0 \in DOMAIN stats
    /\ 10 * Cardinality(SuccessPos(0)) = 9 * SampleCount(0)
    /\ stats[0].latencyAvgMs = 2500
    /\ 2 * SumLatency(history, 0) < 2 * 2500 * CountLatency(history, 0)
    /\ stats[0].reliable = "Medium"


TrailingFailures(api) == Cardinality(FailuresSinceSuccess(api))

\* The claim as first stated: the reliable subset holds exactly the
\* configured endpoints with a success rate of at least 90% and a trailing
\* failure streak below 3.
C14_ReliableByStreak ==
    runs >= 1 =>
        reliable = {k \in DOMAIN apiEntries :
                       /\ RateAtLeast(apiEntries[k].api, 90)
                       /\ TrailingFailures(apiEntries[k].api) < WARN_STREAK}

\* C14: the reliable subset holds exactly the configured endpoints with a
\* success rate of at least 90% whose display status is not the streak
\* alert, that is, that are disabled or have a trailing failure streak
\* below 3.
C14_ReliableByStatus ==
    runs >= 1 =>
        reliable = {k \in DOMAIN apiEntries :
                       /\ RateAtLeast(apiEntries[k].api, 90)
                       /\ \/ apiEntries[k].disabled
                          \/ TrailingFailures(apiEntries[k].api) < WARN_STREAK}

\* The endpoint succeeded 27 times in a window of 30 and is disabled today
\* at the end of three failing entries: it is in the subset.
C14_Witness ==
    /\ runs >= 1
    /\ 0 \in DOMAIN apiEntries
    /\ apiEntries[0].disabled
    /\ RateAtLeast(0, 90)
    /\ TrailingFailures(0) >= WARN_STREAK
    /\ stats[0].status = "Disabled"
    /\ 0 \in reliable


\* The claim as first stated: every endpoint in the reliable subset is in
\* the tier High, with a success rate of at least 90% and an average
\* latency below 2500 ms.
C15_SubsetIsHighTier ==
    \A k \in reliable :
        /\ stats[apiEntries[k].api].reliable = "High"
        /\ RateAtLeast(apiEntries[k].api, 90)
        /\ AvgBelow(apiEntries[k].api, 2500)

\* C15: every endpoint in the reliable subset has a success rate of at
\* least 90%, the rate threshold of the tier High; its latency is not
\* looked at, so its tier is High only when its average latency is below
\* 2500 ms and is Medium or Low otherwise.
C15_SubsetMeetsRateOnly ==
    \A k \in reliable :
        LET api == apiEntries[k].api IN
        /\ RateAtLeast(api, 90)
        /\ stats[api].reliable \in {"High", "Medium", "Low"}
        /\ (stats[api].reliable = "High") = AvgBelow(api, 2500)
        /\ (stats[api].reliable = "Medium") =
              (~AvgBelow(api, 2500) /\ AvgBelow(api, 5000))

\* An endpoint with a success rate of at least 90% and an average latency
\* of 5000 ms or more is in the subset with the tier Low.
C15_Witness ==
    /\ runs >= 1
    /\ 0 \in reliable
    /\ apiEntries[0].api = 0
    /\ stats[0].reliable = "Low"
    /\ stats[0].latencyAvgMs >= 5000
    /\ RateAtLeast(0, 90)


(***************************************************************************)
(* Properties of the task of a disabled endpoint.                          *)
(***************************************************************************)
\* C16: for a disabled endpoint no HEAD, no streamed GET and no search
\* request is ever issued; the endpoint is still in today's record and in
\* the stats, with the search status Skipped and the status Disabled.  An
\* enabled endpoint is probed as soon as its task starts.
C16_DisabledNeverProbed ==
    /\ endpoint # NoValue /\ endpoint.disabled =>
          /\ trace = <<>>
          /\ pcMain = "done" =>
                /\ FindRec(history[Len(history)].results, endpoint.api)
                      = DisabledResult(endpoint)
                /\ endpoint.api \in DOMAIN stats
                /\ stats[endpoint.api].searchStatus = "Skipped"
                /\ stats[endpoint.api].status = "Disabled"
    /\ endpoint # NoValue /\ ~endpoint.disabled /\ pcT # "start" =>
          CountOp("HEAD") >= 1

\* The run of a disabled endpoint has ended and reported it.
C16_Witness ==
    /\ endpoint # NoValue
    /\ endpoint.disabled
    /\ pcT = "done"
    /\ pcMain = "done"
    /\ trace = <<>>
    /\ Len(history) = 1
    /\ stats[endpoint.api].status = "Disabled"
    /\ stats[endpoint.api].searchStatus = "Skipped"


(***************************************************************************)
(* Properties of the display status and of the counts.                     *)
(***************************************************************************)
\* Today's entry for api succeeded.
PassedToday(api) ==
    /\ history # <<>>
    /\ LET e == EntryAt(Len(history), api) IN e # NoValue /\ e.success

\* C17: the display status follows a strict priority: Disabled for a
\* disabled endpoint, else Alert when its trailing failure streak is at
\* least WARN_STREAK, else Failed when today's probe did not succeed, else
\* Ok; the status is never Ok when the streak is at least WARN_STREAK or
\* today's result is a failure.
C17_StatusPriority ==
    \A api \in DOMAIN stats :
        /\ stats[api].status =
              (IF stats[api].disabled THEN "Disabled"
               ELSE IF TrailingFailures(api) >= WARN_STREAK THEN "Alert"
               ELSE IF ~PassedToday(api) THEN "Failed"
               ELSE "Ok")
        /\ stats[api].status = "Ok" =>
              TrailingFailures(api) < WARN_STREAK /\ PassedToday(api)

\* A disabled endpoint at the end of three failing entries shows Disabled,
\* while the other endpoint of the run shows another status.
C17_Witness ==
    /\ runs >= 1
    /\ DOMAIN stats = {0, 1}
    /\ stats[0].disabled
    /\ TrailingFailures(0) >= WARN_STREAK
    /\ stats[0].status = "Disabled"
    /\ stats[1].status \in {"Ok", "Failed"}


\* The records of the window that hold an entry for api.
EntryPos(api) == {k \in DOMAIN history : EntryAt(k, api) # NoValue}

\* C18: after any sequence of runs the ok and fail counts of an endpoint
\* are those of the current window: ok is the number of its records in
\* which the endpoint succeeded and fail the number in which it failed, so
\* ok + fail is the number of records that hold an entry for it (records
\* without one count neither way) and is at most MAX_DAYS; evicted
\* records no longer contribute.
C18_CountsFromWindow ==
    \A api \in DOMAIN stats :
        /\ stats[api].ok = Cardinality(SuccessPos(api))
        /\ stats[api].fail = Cardinality(FailurePos(api))
        /\ stats[api].ok + stats[api].fail = Cardinality(EntryPos(api))
        /\ stats[api].ok + stats[api].fail <= Len(history)
        /\ stats[api].ok + stats[api].fail <= MAX_DAYS

\* After two runs on a full window the oldest records are gone, api 0 is
\* counted in all 30 records and api 1, missing from some, in fewer.
C18_Witness ==
    /\ runs = 2
    /\ Len(history) = MAX_DAYS
    /\ history[1].date >= 3
    /\ DOMAIN stats = {0, 1}
    /\ stats[0].ok + stats[0].fail = MAX_DAYS
    /\ stats[1].ok + stats[1].fail < MAX_DAYS
    /\ stats[1].ok >= 1
    /\ stats[1].fail >= 1


(***************************************************************************)
(* Properties of one probe attempt.                                        *)
(***************************************************************************)
\* Attempt n issued the streamed GET.
Streamed(n) == \E j \in EventsOf({"STREAM"}) : trace[j].n = n

\* C19: within one probe attempt, a HEAD that comes back with a success
\* status ends the probe with success and without a streamed GET, and a
\* HEAD that fails for any reason is followed by the streamed GET in the
\* same attempt, the probe then succeeding iff the streamed status is 200.
\* So an attempt that ended without a streamed GET ended in success, and
\* one that ended on a streamed response succeeded iff its status was 200.
C19_HeadThenStreamFallback ==
    \A k \in EventsOf({"ATTEMPT_END"}) :
        /\ ~Streamed(trace[k].n) =>
              /\ trace[k].res = "ok"
              /\ probe # NoValue /\ probe.success
        /\ Streamed(trace[k].n) /\ trace[k].res # "throw" =>
              /\ (trace[k].res = "ok") = (streamStatus = "200")
              /\ probe # NoValue
              /\ probe.success = (streamStatus = "200")


(***************************************************************************)
(* Properties of the admission order of queueRun.                          *)
(***************************************************************************)
\* No callback is waiting to run: every started task is either still
\* running or has been released.
Quiescent == \A i \in TaskIds : tstate[i] \in {"unstarted", "pending", "done"}

NotSettled == {i \in TaskIds : tstate[i] \in {"unstarted", "pending"}}

Smaller(a, b) == IF a <= b THEN a ELSE b

\* C20: queueRun admits tasks through one cursor in FIFO order: the started
\* tasks are those below the cursor, a started task is never started again,
\* a task's release while unstarted tasks remain admits the next unstarted
\* task, and at every quiescent point after the first call of next() the
\* active count is min(limit, number of tasks not yet settled).
C20_FifoAdmission ==
    /\ [](/\ Started = {i \in TaskIds : i < index}
          /\ index <= NTasks
          /\ pcMain # "start" /\ Quiescent =>
                /\ active = Smaller(limit, Cardinality(NotSettled))
                /\ active = Cardinality(Unsettled))
    /\ [][/\ index' >= index
          /\ \A i \in TaskIds :
                /\ tstate[i] # "unstarted" => tstate'[i] # "unstarted"
                /\ tstate'[i] = "pending" =>
                      tstate[i] \in {"unstarted", "pending"}
                /\ tstate[i] = "unstarted" /\ tstate'[i] # "unstarted" =>
                      /\ tstate'[i] = "pending"
                      /\ i >= index /\ i < index'
          /\ (\E i \in TaskIds : tstate[i] # "done" /\ tstate'[i] = "done")
                /\ index < NTasks =>
                   /\ index' = index + 1
                   /\ tstate'[index] = "pending"
                   /\ active' = active]_vars

\* With three tasks and a limit of two, the first release admitted the
\* third task and nothing waits to run.
C20_Witness ==
    /\ NTasks = 3
    /\ limit = 2
    /\ index = 3
    /\ active = 2
    /\ Quiescent
    /\ Cardinality({i \in TaskIds : tstate[i] = "done"}) = 1
    /\ tstate[2] = "pending"

====
